---------------------------- MODULE Spec2Model ----------------------------
(***************************************************************************)
(* VisDoMRAG (src/visdomrag.py): the per-query orchestrator process_query, *)
(* the run loop, the build-on-demand retrieval reads and the chunk-to-page *)
(* alignment of build_text_index.                                          *)
(*                                                                         *)
(* Files on disk are modelled by their content class:                      *)
(*   "absent"   the path does not exist                                    *)
(*   "partial"  open(path, 'w') created the file and json.dump raised       *)
(*              before the object was complete (unparsable JSON)           *)
(*   "blank"    a response object whose three sections are ""              *)
(*   "r1"       a response object whose sections were found in the reply   *)
(* A response object always carries the metadata keys, so "blank" is a     *)
(* non-empty dict.                                                         *)
(***************************************************************************)
EXTENDS Integers, Sequences, FiniteSets, TLC

VARIABLES
    df,                      \* self.df: the q_id column, one entry per row
    force_reindex,           \* self.force_reindex
    jsonable,                \* q_id -> whether eval(answer)/answer can be json.dump'ed
    visual_file,             \* q_id -> content of {llm}_vision/response_{q}.json
    textual_file,            \* q_id -> content of {llm}_text/response_{q}.json
    combined_file,           \* q_id -> content of {llm}_visdmrag/response_{q}.json
    vision_retrieval_file,   \* retrieval_{vision_retriever}.csv
    text_retrieval_file,     \* retrieval_{text_retriever}.csv
    pc,                      \* position inside process_query / run
    query_id,                \* argument of the running process_query
    run_idx,                 \* 0: no run() active; k: run() is at its k-th query
    visual_contexts,         \* "unset" | "empty" | "some"
    textual_contexts,        \* "unset" | "empty" | "some"
    visual_response_dict,    \* "None" | "blank" | "r1"
    textual_response_dict,   \* "None" | "blank" | "r1"
    result,                  \* "none" | "True" | "False": value process_query returns
    log,                     \* calls, writes and handlers of the running process_query
    document_cache,          \* self.document_cache, in iteration order
    chunk_to_doc_mapping,    \* chunk_to_doc_mapping of build_text_index
    align_pc,                \* "init" | "built"
    run_log,                 \* index builds and generation calls of the running run()
    run_traced,              \* whether run_log is kept (history of the model, not state)
    vision_retriever,        \* self.vision_retriever
    text_retriever,          \* self.text_retriever
    retrieval_dir,           \* {data_dir}/retrieval: file name -> content
    last_read,               \* the table file the last retrieval read loaded
    top_k,                   \* self.top_k
    scores,                  \* q_id -> per chunk: BM25 score, or distance in the store
    askable,                 \* q_id -> whether scoring the question succeeds
    text_rows,               \* rows of the textual table, in file order
    textual_read,            \* last retrieve_textual_contexts: query, rows read, result
    dataset,                 \* q_id -> the 'documents' and 'doc_path' cells of its row
    page_embeddings,         \* pages whose embedding succeeds
    query_embeddings,        \* q_ids whose question embedding succeeds
    page_scores,             \* page -> the score score_multi_vector gives it
    vision_rows,             \* rows of the visual table, in file order
    visual_read,             \* last retrieve_visual_contexts: query, rows read, result
    response_text,           \* the reply text given to a section parser
    sections,                \* result of extract_sections(response_text)
    combined_sections        \* result of parse_combined_output(response_text)

orch_vars == <<df, force_reindex, jsonable, visual_file, textual_file, combined_file,
               vision_retrieval_file, text_retrieval_file, pc, query_id, run_idx,
               visual_contexts, textual_contexts, visual_response_dict,
               textual_response_dict, result, log>>

align_vars == <<document_cache, chunk_to_doc_mapping, align_pc>>

run_vars == <<run_log, run_traced>>

store_vars == <<vision_retriever, text_retriever, retrieval_dir, last_read>>

text_vars == <<top_k, scores, askable, text_rows, textual_read>>

visual_vars == <<dataset, page_embeddings, query_embeddings, page_scores,
                 vision_rows, visual_read>>

parse_vars == <<response_text, sections, combined_sections>>

\* What the orchestrator's steps leave alone
other_vars == <<align_vars, store_vars, text_vars, visual_vars, parse_vars>>

vars == <<orch_vars, run_vars, other_vars>>

-----------------------------------------------------------------------------
(* Bounds of the model *)

MaxDf == 2          \* rows of the dataset

QueryIds == {"q1", "q2"}

Range(s) == {s[i] : i \in 1..Len(s)}

\* All sequences over S of length 1..n
SeqsUpTo(S, n) == UNION {[1..k -> S] : k \in 1..n}

\* Mutant: the loop goes over every row of the dataset
Unique_Keep(s) == s

\* pandas Series.unique(): distinct values in order of first appearance
RECURSIVE Unique(_)
Unique(s) ==
    IF s = <<>> THEN <<>>
    ELSE LET u == Unique(SubSeq(s, 1, Len(s) - 1))
             x == s[Len(s)]
         IN IF x \in Range(u) THEN u ELSE Append(u, x)

-----------------------------------------------------------------------------
(* Files *)

Exists(content) == content # "absent"

NoCombined == [kind |-> "absent", answer |-> "", response1 |-> "", response2 |-> ""]

PartialCombined == [kind |-> "partial", answer |-> "", response1 |-> "", response2 |-> ""]

NoTable == [st |-> "absent", rows |-> {}]

\* json.load of a response file: a partial file does not parse
JsonLoads(content) == content \in {"blank", "r1"}

\* extract_sections applied to the text the generate_* call returned; the text
\* the except-handlers return holds no heading, so every section is ""
SectionsOf(reply) == IF reply = "raise" THEN "blank" ELSE reply

\* parse_combined_output of the fusion reply, or the dict the handler returns
CombinedSectionsOf(reply) == IF reply = "raise" THEN "error" ELSE reply

BackendReplies == {"r1", "blank", "raise"}

FusionReplies == {"f1", "blank", "raise"}

-----------------------------------------------------------------------------
(* Retrieval tables *)

BuildOutcomes == {"ok", "raise", "raise_write"}

\* build_*_index: the table after a build that ended `outcome` with rows for
\* the queries of R.  An exception before open(..., 'w') leaves the file as it
\* was; one during the csv write leaves a truncated file.
\* The row sets a build that ends `outcome` can leave: any subset of the
\* dataset's queries (a query whose embedding or scoring raised is skipped)
RowSets(outcome) == IF outcome = "ok" THEN SUBSET Range(df) ELSE {{}}

BuildResult(table, outcome, R) ==
    CASE outcome = "ok" -> [st |-> "built", rows |-> R]
      [] outcome = "raise" -> table
      [] outcome = "raise_write" -> [st |-> "broken", rows |-> {}]

\* What one build_*_index call adds to the log: the call and, when it raised,
\* its handler (which logs the error and returns False)
BuildEvents(name, outcome) ==
    <<name>> \o (IF outcome = "ok" THEN <<>> ELSE <<"except_" \o name>>)

\* df_retrieval[df_retrieval['q_id'] == query_id] is non-empty
HasRows(table, q) == table.st = "built" /\ q \in table.rows

\* Mutant: the visual read rebuilds on every call
NeedVisualBuild_Always == TRUE

NeedVisualBuild == vision_retrieval_file.st = "absent" \/ force_reindex

NeedTextBuild == text_retrieval_file.st = "absent" \/ force_reindex

\* the build_text_index() call that follows the conditional one
SecondTextBuild == TRUE


-----------------------------------------------------------------------------
(* State after VisDoMRAG.__init__, with nothing on disk *)

Locals0 ==
    /\ visual_contexts = "unset"
    /\ textual_contexts = "unset"
    /\ visual_response_dict = "None"
    /\ textual_response_dict = "None"
    /\ result = "none"
    /\ log = <<>>

ClearLocals ==
    /\ visual_contexts' = "unset"
    /\ textual_contexts' = "unset"
    /\ visual_response_dict' = "None"
    /\ textual_response_dict' = "None"
    /\ result' = "none"
    /\ log' = <<>>

AlignIdle ==
    /\ document_cache = <<>>
    /\ chunk_to_doc_mapping = <<>>
    /\ align_pc = "init"

\* The parts of the pipeline the orchestrator model keeps abstract
RunIdle == run_log = <<>> /\ run_traced = FALSE

StoreIdle ==
    /\ vision_retriever = "colpali"
    /\ text_retriever = "bm25"
    /\ retrieval_dir = <<>>
    /\ last_read = <<>>

TextIdle ==
    /\ top_k = 1
    /\ scores = <<>>
    /\ askable = <<>>
    /\ text_rows = <<>>
    /\ textual_read = <<>>

VisualIdle ==
    /\ dataset = <<>>
    /\ page_embeddings = {}
    /\ query_embeddings = {}
    /\ page_scores = <<>>
    /\ vision_rows = <<>>
    /\ visual_read = <<>>

ParseIdle ==
    /\ response_text = <<>>
    /\ sections = <<>>
    /\ combined_sections = <<>>

Init ==
    /\ df \in SeqsUpTo(QueryIds, MaxDf)
    /\ force_reindex \in BOOLEAN
    /\ jsonable \in [QueryIds -> BOOLEAN]
    /\ visual_file = [q \in QueryIds |-> "absent"]
    /\ textual_file = [q \in QueryIds |-> "absent"]
    /\ combined_file = [q \in QueryIds |-> NoCombined]
    /\ vision_retrieval_file = NoTable
    /\ text_retrieval_file = NoTable
    /\ pc = "idle"
    /\ query_id = "q1"
    /\ run_idx = 0
    /\ Locals0
    /\ RunIdle
    /\ AlignIdle
    /\ StoreIdle
    /\ TextIdle
    /\ VisualIdle
    /\ ParseIdle

-----------------------------------------------------------------------------
(* What run() has done so far: kept while a run() is active, empty otherwise *)

\* The index builds and per-modality generation calls recorded for a run
RunEvents == {"build_visual_index", "build_text_index",
              "generate_visual_response", "generate_textual_response"}

\* A step of process_query: what it added to `log`, when run() is the caller
RunLogged ==
    /\ run_log' = IF run_idx > 0 /\ run_traced
                  THEN run_log \o SelectSeq(SubSeq(log', Len(log) + 1, Len(log')),
                                            LAMBDA e : e \in RunEvents)
                  ELSE run_log
    /\ UNCHANGED run_traced

-----------------------------------------------------------------------------
(* Callers of process_query *)

\* A caller invokes process_query(q) for a query of the dataset
CallProcessQuery(q) ==
    /\ pc = "idle"
    /\ q \in Range(df)
    /\ pc' = "start"
    /\ query_id' = q
    /\ UNCHANGED <<df, force_reindex, jsonable, visual_file, textual_file, combined_file,
                   vision_retrieval_file, text_retrieval_file, run_idx,
                   visual_contexts, textual_contexts, visual_response_dict,
                   textual_response_dict, result, log, other_vars>>
    /\ UNCHANGED run_vars

\* run(): the loop starts with the first distinct q_id
RunStart ==
    /\ pc = "idle"
    /\ run_idx' = 1
    /\ query_id' = Unique(df)[1]
    /\ pc' = "start"
    /\ UNCHANGED <<df, force_reindex, jsonable, visual_file, textual_file, combined_file,
                   vision_retrieval_file, text_retrieval_file,
                   visual_contexts, textual_contexts, visual_response_dict,
                   textual_response_dict, result, log, other_vars>>
    /\ UNCHANGED run_vars

\* process_query returned to a direct caller
Return ==
    /\ pc = "ret"
    /\ run_idx = 0
    /\ pc' = "idle"
    /\ ClearLocals
    /\ UNCHANGED <<df, force_reindex, jsonable, visual_file, textual_file, combined_file,
                   vision_retrieval_file, text_retrieval_file, query_id, run_idx,
                   other_vars>>
    /\ UNCHANGED run_vars

\* run(): process_query returned; the loop takes the next distinct q_id or ends
RunNext ==
    /\ pc = "ret"
    /\ run_idx > 0
    /\ IF run_idx < Len(Unique(df))
       THEN /\ run_idx' = run_idx + 1
            /\ query_id' = Unique(df)[run_idx + 1]
            /\ pc' = "start"
       ELSE /\ run_idx' = 0
            /\ query_id' = query_id
            /\ pc' = "idle"
    /\ ClearLocals
    /\ UNCHANGED <<df, force_reindex, jsonable, visual_file, textual_file, combined_file,
                   vision_retrieval_file, text_retrieval_file, other_vars>>
    /\ run_log' = IF run_idx < Len(Unique(df)) THEN run_log ELSE <<>>
    /\ UNCHANGED run_traced

-----------------------------------------------------------------------------
(* process_query *)

\* Mutant: the combined artifact is never taken as a completion marker
CombinedExists_Never == FALSE

\* os.path.exists(combined_file)
CombinedExists == Exists(combined_file[query_id].kind)

\* Mutant: the visual artifact is regenerated whether or not it exists
VisualMissing_Always == TRUE

\* not os.path.exists(visual_file)
VisualMissing == ~Exists(visual_file[query_id])

\* Mutant: the textual artifact is regenerated whether or not it exists
TextualMissing_Always == TRUE

\* not os.path.exists(textual_file)
TextualMissing == ~Exists(textual_file[query_id])

\* Mutant: generation runs on an empty context list too
HasContexts_Any(contexts) == TRUE

\* `if visual_contexts:` / `if textual_contexts:`
HasContexts(contexts) == contexts = "some"

\* Mutant: only the visual response is checked before fusion
MissingResponse_VisualOnly == visual_response_dict = "None"

\* Mutant: fusion is attempted without checking the two responses
MissingResponse_Ignored == FALSE

\* not visual_response_dict or not textual_response_dict
MissingResponse == visual_response_dict = "None" \/ textual_response_dict = "None"

\* Mutant: the outer handler reports success
Fails_ReturnsTrue(events) ==
    /\ pc' = "ret"
    /\ result' = "True"
    /\ log' = log \o events \o <<"except_process_query">>

\* The outer handler of process_query: log the error, return False
Fails(events) ==
    /\ pc' = "ret"
    /\ result' = "False"
    /\ log' = log \o events \o <<"except_process_query">>

\* os.path.exists(combined_file): skip the query
PQ_Begin ==
    /\ pc = "start"
    /\ IF CombinedExists
       THEN /\ pc' = "ret"
            /\ result' = "True"
       ELSE /\ pc' = "visual"
            /\ result' = result
    /\ UNCHANGED <<df, force_reindex, jsonable, visual_file, textual_file, combined_file,
                   vision_retrieval_file, text_retrieval_file, query_id, run_idx,
                   visual_contexts, textual_contexts, visual_response_dict,
                   textual_response_dict, log, other_vars>>
    /\ RunLogged

\* the visual artifact exists: json.load it
PQ_VisualLoad ==
    /\ pc = "visual"
    /\ ~VisualMissing
    /\ IF JsonLoads(visual_file[query_id])
       THEN /\ visual_response_dict' = visual_file[query_id]
            /\ pc' = "textual"
            /\ UNCHANGED <<result, log>>
       ELSE /\ Fails(<<>>)
            /\ UNCHANGED visual_response_dict
    /\ UNCHANGED <<df, force_reindex, jsonable, visual_file, textual_file, combined_file,
                   vision_retrieval_file, text_retrieval_file, query_id, run_idx,
                   visual_contexts, textual_contexts, textual_response_dict, other_vars>>
    /\ RunLogged

\* retrieve_visual_contexts(query_id): build on demand, then read the rows of
\* the query and load their page images (each load may fail)
PQ_VisualRetrieve ==
    /\ pc = "visual"
    /\ VisualMissing
    /\ \E outcome \in BuildOutcomes, loaded \in BOOLEAN : \E R \in RowSets(outcome) :
         LET build == NeedVisualBuild
             table == IF build THEN BuildResult(vision_retrieval_file, outcome, R)
                      ELSE vision_retrieval_file
             pages == IF build /\ outcome # "ok" THEN "empty"
                      ELSE IF HasRows(table, query_id) /\ loaded THEN "some" ELSE "empty"
         IN /\ vision_retrieval_file' = table
            /\ visual_contexts' = pages
            /\ log' = log \o <<"retrieve_visual_contexts">>
                          \o (IF build THEN BuildEvents("build_visual_index", outcome)
                              ELSE <<>>)
            /\ pc' = IF HasContexts(pages) THEN "vgen" ELSE "textual"
    /\ UNCHANGED <<df, force_reindex, jsonable, visual_file, textual_file, combined_file,
                   text_retrieval_file, query_id, run_idx, textual_contexts,
                   visual_response_dict, textual_response_dict, result, other_vars>>
    /\ RunLogged

\* generate_visual_response, extract_sections, metadata, json.dump to visual_file
PQ_VisualGenerate ==
    /\ pc = "vgen"
    /\ \E reply \in BackendReplies :
         LET events == <<"generate_visual_response">>
                       \o (IF reply = "raise" THEN <<"except_generate_visual_response">>
                           ELSE <<>>)
                       \o <<"write_visual_file">>
         IN IF jsonable[query_id]
            THEN /\ visual_file' = [visual_file EXCEPT ![query_id] = SectionsOf(reply)]
                 /\ visual_response_dict' = SectionsOf(reply)
                 /\ log' = log \o events
                 /\ pc' = "textual"
                 /\ UNCHANGED result
            ELSE /\ visual_file' = [visual_file EXCEPT ![query_id] = "partial"]
                 /\ UNCHANGED visual_response_dict
                 /\ Fails(events)
    /\ UNCHANGED <<df, force_reindex, jsonable, textual_file, combined_file,
                   vision_retrieval_file, text_retrieval_file, query_id, run_idx,
                   visual_contexts, textual_contexts, textual_response_dict, other_vars>>
    /\ RunLogged

\* the textual artifact exists: json.load it
PQ_TextualLoad ==
    /\ pc = "textual"
    /\ ~TextualMissing
    /\ IF JsonLoads(textual_file[query_id])
       THEN /\ textual_response_dict' = textual_file[query_id]
            /\ pc' = "fuse"
            /\ UNCHANGED <<result, log>>
       ELSE /\ Fails(<<>>)
            /\ UNCHANGED textual_response_dict
    /\ UNCHANGED <<df, force_reindex, jsonable, visual_file, textual_file, combined_file,
                   vision_retrieval_file, text_retrieval_file, query_id, run_idx,
                   visual_contexts, textual_contexts, visual_response_dict, other_vars>>
    /\ RunLogged

\* retrieve_textual_contexts(query_id): the conditional build, the build that
\* follows it, then the rows of the query with the smallest ranks
PQ_TextualRetrieve ==
    /\ pc = "textual"
    /\ TextualMissing
    /\ \E o1 \in BuildOutcomes, o2 \in BuildOutcomes :
       \E R1 \in RowSets(o1), R2 \in RowSets(o2) :
         LET first == NeedTextBuild
             t1 == IF first THEN BuildResult(text_retrieval_file, o1, R1)
                   ELSE text_retrieval_file
             gaveup == first /\ o1 # "ok"
             second == ~gaveup /\ SecondTextBuild
             t2 == IF second THEN BuildResult(t1, o2, R2) ELSE t1
             chunks == IF ~gaveup /\ HasRows(t2, query_id) THEN "some" ELSE "empty"
         IN /\ text_retrieval_file' = t2
            /\ textual_contexts' = chunks
            /\ log' = log \o <<"retrieve_textual_contexts">>
                          \o (IF first THEN BuildEvents("build_text_index", o1)
                              ELSE <<>>)
                          \o (IF second THEN BuildEvents("build_text_index", o2)
                              ELSE <<>>)
            /\ pc' = IF HasContexts(chunks) THEN "tgen" ELSE "fuse"
    /\ UNCHANGED <<df, force_reindex, jsonable, visual_file, textual_file, combined_file,
                   vision_retrieval_file, query_id, run_idx, visual_contexts,
                   visual_response_dict, textual_response_dict, result, other_vars>>
    /\ RunLogged

\* generate_textual_response, extract_sections, metadata, json.dump to textual_file
PQ_TextualGenerate ==
    /\ pc = "tgen"
    /\ \E reply \in BackendReplies :
         LET events == <<"generate_textual_response">>
                       \o (IF reply = "raise" THEN <<"except_generate_textual_response">>
                           ELSE <<>>)
                       \o <<"write_textual_file">>
         IN IF jsonable[query_id]
            THEN /\ textual_file' = [textual_file EXCEPT ![query_id] = SectionsOf(reply)]
                 /\ textual_response_dict' = SectionsOf(reply)
                 /\ log' = log \o events
                 /\ pc' = "fuse"
                 /\ UNCHANGED result
            ELSE /\ textual_file' = [textual_file EXCEPT ![query_id] = "partial"]
                 /\ UNCHANGED textual_response_dict
                 /\ Fails(events)
    /\ UNCHANGED <<df, force_reindex, jsonable, visual_file, combined_file,
                   vision_retrieval_file, text_retrieval_file, query_id, run_idx,
                   visual_contexts, textual_contexts, visual_response_dict, other_vars>>
    /\ RunLogged

\* a response is missing: warn and return False
PQ_Missing ==
    /\ pc = "fuse"
    /\ MissingResponse
    /\ pc' = "ret"
    /\ result' = "False"
    /\ UNCHANGED <<df, force_reindex, jsonable, visual_file, textual_file, combined_file,
                   vision_retrieval_file, text_retrieval_file, query_id, run_idx,
                   visual_contexts, textual_contexts, visual_response_dict,
                   textual_response_dict, log, other_vars>>
    /\ RunLogged

\* Mutant: the two modality responses are embedded the other way round
combined_response_Swapped(reply, visual, textual) ==
    [kind |-> "dict", answer |-> CombinedSectionsOf(reply),
     response1 |-> textual, response2 |-> visual]

\* combined_response: the fused sections and both modality responses
combined_response(reply, visual, textual) ==
    [kind |-> "dict", answer |-> CombinedSectionsOf(reply),
     response1 |-> visual, response2 |-> textual]

\* combine_responses, then json.dump of the combined response to combined_file
PQ_Combine ==
    /\ pc = "fuse"
    /\ ~MissingResponse
    /\ \E reply \in FusionReplies :
         LET events == <<"combine_responses">>
                       \o (IF reply = "raise" THEN <<"except_combine_responses">>
                           ELSE <<>>)
                       \o <<"write_combined_file">>
         IN IF jsonable[query_id]
            THEN /\ combined_file' = [combined_file EXCEPT ![query_id] =
                        combined_response(reply, visual_response_dict,
                                          textual_response_dict)]
                 /\ log' = log \o events
                 /\ pc' = "ret"
                 /\ result' = "True"
            ELSE /\ combined_file' = [combined_file EXCEPT ![query_id] = PartialCombined]
                 /\ Fails(events)
    /\ UNCHANGED <<df, force_reindex, jsonable, visual_file, textual_file,
                   vision_retrieval_file, text_retrieval_file, query_id, run_idx,
                   visual_contexts, textual_contexts, visual_response_dict,
                   textual_response_dict, other_vars>>
    /\ RunLogged

Next ==
    \/ \E q \in QueryIds : CallProcessQuery(q)
    \/ RunStart
    \/ Return
    \/ RunNext
    \/ PQ_Begin
    \/ PQ_VisualLoad
    \/ PQ_VisualRetrieve
    \/ PQ_VisualGenerate
    \/ PQ_TextualLoad
    \/ PQ_TextualRetrieve
    \/ PQ_TextualGenerate
    \/ PQ_Missing
    \/ PQ_Combine

Spec == Init /\ [][Next]_vars

-----------------------------------------------------------------------------
(* Vocabulary of the properties *)

Logged(e) == e \in Range(log)

\* What the step just taken added to the log
NewEvents == SubSeq(log', Len(log) + 1, Len(log'))

NewlyLogged(e) == e \in Range(NewEvents)

RetrievalEvents == {"retrieve_visual_contexts", "retrieve_textual_contexts"}

BuildCalls == {"build_visual_index", "build_text_index"}

GenerationEvents == {"generate_visual_response", "generate_textual_response",
                     "combine_responses"}

WriteEvents == {"write_visual_file", "write_textual_file", "write_combined_file"}

\* The generation backend calls of the running process_query, in order
GenerationCalls == SelectSeq(log, LAMBDA e : e \in GenerationEvents)

\* The artifact existed when the running process_query was entered: files are
\* never removed, and a file created by this call has its write in the log
VisualAtEntry == Exists(visual_file[query_id]) /\ ~Logged("write_visual_file")

TextualAtEntry == Exists(textual_file[query_id]) /\ ~Logged("write_textual_file")

CombinedAtEntry ==
    Exists(combined_file[query_id].kind) /\ ~Logged("write_combined_file")

ArtifactsUnchanged ==
    UNCHANGED <<visual_file, textual_file, combined_file>>

TablesUnchanged ==
    UNCHANGED <<vision_retrieval_file, text_retrieval_file>>

-----------------------------------------------------------------------------
(* C1..C9: the per-query orchestrator and the build-on-demand reads *)

\* C1: process_query on a query whose combined artifact already exists is a
\* no-op: the call returns True at once, having made no retrieval call, no
\* index build and no generation backend call, and having written no file.
C1_CombinedExistsIsNoOp ==
    [][(pc = "start" /\ Exists(combined_file[query_id].kind))
         => /\ pc' = "ret"
            /\ result' = "True"
            /\ log' = <<>>
            /\ ArtifactsUnchanged
            /\ TablesUnchanged]_vars

\* C1 witness: a call that returned True with an empty log
C1_Witness ==
    /\ pc = "ret"
    /\ result = "True"
    /\ log = <<>>
    /\ Exists(combined_file[query_id].kind)

\* C2: when a generation backend call fails during process_query (visual,
\* textual or fusion), the call returns False and the artifact of the failed
\* step is not persisted, so that a later run redoes that step.  Stated for
\* the queries whose answer json.dump can serialise, so that the only failure
\* in the call is the backend's.
C2_BackendFailureFailsQuery ==
    (pc = "ret" /\ jsonable[query_id]) =>
      /\ Logged("except_generate_visual_response")
           => result = "False" /\ ~Exists(visual_file[query_id])
      /\ Logged("except_generate_textual_response")
           => result = "False" /\ ~Exists(textual_file[query_id])
      /\ Logged("except_combine_responses")
           => result = "False" /\ ~Exists(combined_file[query_id].kind)

\* C3: an existing visual (resp. textual) artifact makes process_query treat
\* the modality as done whatever the file contains: the step makes no
\* retrieval and no generation call and goes on to the next step; the
\* file's content never makes the call fail.
C3_ExistingArtifactIsDone ==
    [][/\ (pc = "visual" /\ Exists(visual_file[query_id]))
            => pc' = "textual" /\ log' = log
       /\ (pc = "textual" /\ Exists(textual_file[query_id]))
            => pc' = "fuse" /\ log' = log]_vars

\* C4: a textual read invokes build_text_index if and only if the textual
\* table is absent or force_reindex is set; with the table present and
\* force_reindex false the persisted table is left unchanged.
C4_TextBuildOnDemand ==
    [][(pc = "textual" /\ ~Exists(textual_file[query_id]))
         => /\ NewlyLogged("build_text_index")
                 <=> (text_retrieval_file.st = "absent" \/ force_reindex)
            /\ (text_retrieval_file.st # "absent" /\ ~force_reindex)
                 => text_retrieval_file' = text_retrieval_file]_vars

\* C5: a visual read invokes build_visual_index if and only if the visual
\* table is absent or force_reindex is set; with the table present and
\* force_reindex false the persisted table is left unchanged; when a
\* triggered build fails the read returns an empty context list.
C5_VisualBuildOnDemand ==
    [][(pc = "visual" /\ ~Exists(visual_file[query_id]))
         => /\ NewlyLogged("retrieve_visual_contexts")
            /\ NewlyLogged("build_visual_index")
                 <=> (vision_retrieval_file.st = "absent" \/ force_reindex)
            /\ (vision_retrieval_file.st # "absent" /\ ~force_reindex)
                 => vision_retrieval_file' = vision_retrieval_file
            /\ NewlyLogged("except_build_visual_index")
                 => visual_contexts' = "empty"]_vars

\* C5 witness: a visual read that reused the existing table (no build) and
\* returned contexts
C5_Witness ==
    /\ pc = "vgen"
    /\ log = <<"retrieve_visual_contexts">>
    /\ ~force_reindex
    /\ visual_contexts = "some"

\* C6: after the visual and textual steps, if the artifact of either modality
\* is absent, process_query returns False, makes no fusion call, writes no
\* combined artifact, and no exception handler runs.
C6_MissingResponseFails ==
    [][(pc = "fuse" /\ (~Exists(visual_file[query_id])
                          \/ ~Exists(textual_file[query_id])))
         => /\ pc' = "ret"
            /\ result' = "False"
            /\ log' = log
            /\ ~Logged("except_process_query")
            /\ ArtifactsUnchanged]_vars

\* C6 witness: a call that returned False because retrieval gave no contexts
C6_Witness ==
    /\ pc = "ret"
    /\ result = "False"
    /\ visual_contexts = "empty"
    /\ ~Exists(visual_file[query_id])
    /\ textual_contexts = "some"
    /\ Exists(textual_file[query_id])
    /\ ~Logged("combine_responses")

\* C7: for each modality, when its artifact is missing and its retrieval
\* returns no contexts, the call makes no generation backend call for that
\* modality and writes no artifact file for it.
C7_EmptyRetrievalNoGeneration ==
    /\ visual_contexts = "empty"
         => /\ ~Logged("generate_visual_response")
            /\ ~Logged("write_visual_file")
            /\ ~Exists(visual_file[query_id])
    /\ textual_contexts = "empty"
         => /\ ~Logged("generate_textual_response")
            /\ ~Logged("write_textual_file")
            /\ ~Exists(textual_file[query_id])

\* C7 witness: a call in which both retrievals came back empty
C7_Witness ==
    /\ pc = "ret"
    /\ visual_contexts = "empty"
    /\ textual_contexts = "empty"

\* C8: in any process_query call that does not find the combined artifact,
\* a modality whose artifact exists gets no retrieval and no generation call,
\* a modality whose artifact is missing is retrieved and, if its contexts
\* are non-empty, generated; with the visual artifact present and the
\* textual one absent (and textual contexts found) the generation backend
\* calls are exactly the textual generation and the fusion call.
C8_ResumeOnlyMissing ==
    (pc = "ret" /\ ~CombinedAtEntry) =>
      /\ VisualAtEntry
           => /\ ~Logged("retrieve_visual_contexts")
              /\ ~Logged("generate_visual_response")
      /\ TextualAtEntry
           => /\ ~Logged("retrieve_textual_contexts")
              /\ ~Logged("generate_textual_response")
      /\ ~VisualAtEntry
           => /\ Logged("retrieve_visual_contexts")
              /\ visual_contexts = "some" => Logged("generate_visual_response")
      /\ ~TextualAtEntry
           => /\ Logged("retrieve_textual_contexts")
              /\ textual_contexts = "some" => Logged("generate_textual_response")
      /\ (VisualAtEntry /\ ~TextualAtEntry /\ textual_contexts = "some")
           => GenerationCalls = <<"generate_textual_response", "combine_responses">>

\* C9: an artifact file that exists is never rewritten, truncated or deleted
C9_ArtifactsImmutable ==
    [][\A q \in QueryIds :
         /\ Exists(visual_file[q]) => visual_file'[q] = visual_file[q]
         /\ Exists(textual_file[q]) => textual_file'[q] = textual_file[q]
         /\ Exists(combined_file[q].kind) => combined_file'[q] = combined_file[q]]_vars

\* C9 witness: a call that went through its textual step and fusion with a
\* visual artifact written by an earlier call
C9_Witness ==
    /\ pc = "ret"
    /\ VisualAtEntry
    /\ Logged("write_textual_file")
    /\ Logged("write_combined_file")

-----------------------------------------------------------------------------
(* Chunk alignment: build_text_index, lines 546-557, and                   *)
(* identify_document_and_page.  Texts are sequences of characters.         *)

MaxPages == 2       \* pages of one cached document

ChunkSize == 2      \* self.chunk_size, scaled to the page texts of the model

ChunkOverlap == 1   \* self.chunk_overlap, scaled likewise

DocIds == {"d1", "d2"}

PageTexts == {<<>>, <<"a">>, <<"b">>, <<"a", "b">>}

Min2(x, y) == IF x < y THEN x ELSE y

\* "\n".join(pages)
RECURSIVE Join(_)
Join(pages) ==
    IF pages = <<>> THEN <<>>
    ELSE IF Len(pages) = 1 THEN pages[1]
    ELSE pages[1] \o <<"\n">> \o Join(Tail(pages))

\* split_text(text): overlapping chunks of at most chunk_size characters, each
\* starting chunk_size - chunk_overlap characters after the one before
RECURSIVE ChunksFrom(_, _)
ChunksFrom(text, start) ==
    LET stop == Min2(start + ChunkSize - 1, Len(text))
        step == IF ChunkSize > ChunkOverlap THEN ChunkSize - ChunkOverlap ELSE 1
    IN IF start > Len(text) THEN <<>>
       ELSE IF stop = Len(text) THEN <<SubSeq(text, start, stop)>>
       ELSE <<SubSeq(text, start, stop)>> \o ChunksFrom(text, start + step)

split_text(text) == ChunksFrom(text, 1)

\* SequenceMatcher.find_longest_match(alo, ahi, blo, bhi): the longest block
\* a[i..i+k) = b[j..j+k) inside the two ranges, the one starting earliest in
\* a and, among those, earliest in b; <<alo, blo, 0>> when nothing matches
LongestMatch(a, b, alo, ahi, blo, bhi) ==
    LET blocks == {t \in (alo..ahi - 1) \X (blo..bhi - 1) \X (1..Len(a)) :
                     /\ t[1] + t[3] <= ahi
                     /\ t[2] + t[3] <= bhi
                     /\ \A d \in 0..t[3] - 1 : a[t[1] + d] = b[t[2] + d]}
    IN IF blocks = {} THEN <<alo, blo, 0>>
       ELSE CHOOSE t \in blocks :
              \A u \in blocks :
                 \/ u[3] < t[3]
                 \/ u[3] = t[3] /\ t[1] < u[1]
                 \/ u[3] = t[3] /\ t[1] = u[1] /\ t[2] <= u[2]

\* Sum of the sizes of SequenceMatcher.get_matching_blocks(): the longest
\* match, then the same to its left and to its right
RECURSIVE Matches(_, _, _, _, _, _)
Matches(a, b, alo, ahi, blo, bhi) ==
    LET m == LongestMatch(a, b, alo, ahi, blo, bhi)
    IN IF m[3] = 0 THEN 0
       ELSE m[3] + Matches(a, b, alo, m[1], blo, m[2])
                 + Matches(a, b, m[1] + m[3], ahi, m[2] + m[3], bhi)

\* SequenceMatcher(None, a, b).ratio() = 2.0 * M / T (1.0 when T = 0), kept
\* as the fraction <<numerator, denominator>>
Ratio(a, b) ==
    IF Len(a) + Len(b) = 0 THEN <<1, 1>>
    ELSE <<2 * Matches(a, b, 1, Len(a) + 1, 1, Len(b) + 1), Len(a) + Len(b)>>

RatioGreater(r, s) == r[1] * s[2] > s[1] * r[2]

RatioZero(r) == r[1] = 0

\* Mutant: a page that only equals the best ratio so far replaces it
RatioBeats_OrEqual(ratio, max_ratio) == ~RatioGreater(max_ratio, ratio)

\* `if ratio > max_ratio:`
RatioBeats(ratio, max_ratio) == RatioGreater(ratio, max_ratio)

\* The (document, page) pairs in the order of the two nested loops:
\* <<k, page_num>> for the k-th entry of the cache
RECURSIVE PagePairs(_, _)
PagePairs(cache, k) ==
    IF k > Len(cache) THEN <<>>
    ELSE [i \in 1..Len(cache[k].pages) |-> <<k, i - 1>>] \o PagePairs(cache, k + 1)

NoMatch == [found |-> FALSE, arxiv_id |-> "", page_num |-> 0]

\* The loops of identify_document_and_page from the i-th pair on
RECURSIVE IdentifyFrom(_, _, _, _, _)
IdentifyFrom(chunk, pairs, i, max_ratio, best_match) ==
    IF i > Len(pairs) THEN best_match
    ELSE LET k == pairs[i][1]
             page_num == pairs[i][2]
             ratio == Ratio(chunk, document_cache[k].pages[page_num + 1])
         IN IF RatioBeats(ratio, max_ratio)
            THEN IdentifyFrom(chunk, pairs, i + 1, ratio,
                              [found |-> TRUE, arxiv_id |-> document_cache[k].id,
                               page_num |-> page_num])
            ELSE IdentifyFrom(chunk, pairs, i + 1, max_ratio, best_match)

identify_document_and_page(chunk) ==
    IdentifyFrom(chunk, PagePairs(document_cache, 1), 1, <<0, 1>>, NoMatch)

\* One entry of chunk_to_doc_mapping; `source` is the doc_id of the loop
MappingEntry(doc_id, chunk) ==
    LET best == identify_document_and_page(chunk)
    IN [chunk |-> chunk,
        chunk_pdf_name |-> IF best.found /\ best.arxiv_id # "" THEN best.arxiv_id
                           ELSE doc_id,
        pdf_page_number |-> IF best.found THEN best.page_num ELSE 0,
        source |-> doc_id]

\* The entries of the documents from the k-th on
RECURSIVE MappingFrom(_)
MappingFrom(k) ==
    IF k > Len(document_cache) THEN <<>>
    ELSE LET chunks == split_text(Join(document_cache[k].pages))
         IN [i \in 1..Len(chunks) |-> MappingEntry(document_cache[k].id, chunks[i])]
            \o MappingFrom(k + 1)

\* Document caches: one entry per document id, in any iteration order
PageLists == UNION {[1..n -> PageTexts] : n \in 0..MaxPages}

Caches ==
    {c \in UNION {[1..n -> [id : DocIds, pages : PageLists]] :
                    n \in 1..Cardinality(DocIds)} :
       \A i, j \in 1..Len(c) : i # j => c[i].id # c[j].id}

InitAlign ==
    /\ df = <<"q1">>
    /\ force_reindex = FALSE
    /\ jsonable = [q \in QueryIds |-> TRUE]
    /\ visual_file = [q \in QueryIds |-> "absent"]
    /\ textual_file = [q \in QueryIds |-> "absent"]
    /\ combined_file = [q \in QueryIds |-> NoCombined]
    /\ vision_retrieval_file = NoTable
    /\ text_retrieval_file = NoTable
    /\ pc = "idle"
    /\ query_id = "q1"
    /\ run_idx = 0
    /\ Locals0
    /\ RunIdle
    /\ StoreIdle
    /\ TextIdle
    /\ VisualIdle
    /\ ParseIdle
    /\ document_cache \in Caches
    /\ chunk_to_doc_mapping = <<>>
    /\ align_pc = "init"

\* build_text_index up to the choice of the retriever: every chunk of every
\* cached document is recorded with its document and page
BuildTextChunks ==
    /\ align_pc = "init"
    /\ chunk_to_doc_mapping' = MappingFrom(1)
    /\ align_pc' = "built"
    /\ UNCHANGED <<orch_vars, run_vars, document_cache, store_vars, text_vars,
                   visual_vars, parse_vars>>

NextAlign == BuildTextChunks

SpecAlign == InitAlign /\ [][NextAlign]_vars

-----------------------------------------------------------------------------
(* C10: chunk-to-page alignment *)

\* The pairs <<k, page_num>> of the cache, and their order in the iteration
AllPairs == Range(PagePairs(document_cache, 1))

Earlier(x, y) == x[1] < y[1] \/ (x[1] = y[1] /\ x[2] < y[2])

PageRatio(chunk, x) == Ratio(chunk, document_cache[x[1]].pages[x[2] + 1])

\* x has the maximum ratio for the chunk and is the first pair that has it
FirstMaximal(chunk, x) ==
    \A y \in AllPairs :
       /\ ~RatioGreater(PageRatio(chunk, y), PageRatio(chunk, x))
       /\ Earlier(y, x) => RatioGreater(PageRatio(chunk, x), PageRatio(chunk, y))

\* C10: every chunk of build_text_index is recorded with the (document, page)
\* of maximum similarity ratio over all pages of all cached documents, the
\* first such pair in iteration order; when every ratio is zero or there is
\* no page, with (source document, 0).  Every entry has a document id and a
\* page number, and every chunk of every document has its entry.
C10_ChunkBestPage ==
    align_pc = "built" =>
      /\ \A i \in 1..Len(chunk_to_doc_mapping) :
           LET e == chunk_to_doc_mapping[i]
           IN /\ e.chunk_pdf_name \in DocIds
              /\ e.pdf_page_number \in Nat
              /\ IF \A y \in AllPairs : RatioZero(PageRatio(e.chunk, y))
                 THEN e.chunk_pdf_name = e.source /\ e.pdf_page_number = 0
                 ELSE \E x \in AllPairs :
                        /\ FirstMaximal(e.chunk, x)
                        /\ e.chunk_pdf_name = document_cache[x[1]].id
                        /\ e.pdf_page_number = x[2]
      /\ \A k \in 1..Len(document_cache) :
           \A c \in Range(split_text(Join(document_cache[k].pages))) :
              \E i \in 1..Len(chunk_to_doc_mapping) :
                 /\ chunk_to_doc_mapping[i].chunk = c
                 /\ chunk_to_doc_mapping[i].source = document_cache[k].id

\* C10 witness: a chunk for which two pages tie at a positive maximum, and
\* that is recorded on a document other than the one it was cut from
C10_Witness ==
    /\ align_pc = "built"
    /\ \E i \in 1..Len(chunk_to_doc_mapping) :
         LET e == chunk_to_doc_mapping[i]
         IN /\ e.chunk_pdf_name # e.source
            /\ \E x, y \in AllPairs :
                 /\ x # y
                 /\ FirstMaximal(e.chunk, x)
                 /\ ~RatioZero(PageRatio(e.chunk, x))
                 /\ PageRatio(e.chunk, y) = PageRatio(e.chunk, x)

\* C10 witness of the fallback: a chunk that matches no page at all
C10_FallbackReached ==
    /\ align_pc = "built"
    /\ \E i \in 1..Len(chunk_to_doc_mapping) :
         \A y \in AllPairs : RatioZero(PageRatio(chunk_to_doc_mapping[i].chunk, y))

-----------------------------------------------------------------------------
(* The textual table in detail: build_text_index from the choice of the     *)
(* retriever on (lines 559-650) and the read of retrieve_textual_contexts.  *)
(* A chunk is named by its index in all_chunks.  A build either writes the  *)
(* whole table or raises before opening it.                                 *)

MaxChunks == 3      \* len(all_chunks)

TopK == 1           \* self.top_k, scaled to the chunks of the model

ScoreValues == {0, 1}

TextRetrievers == {"bm25", "minilm", "mpnet", "bge"}

NoRows == [st |-> "absent", rows |-> <<>>]

NoRead == [query_id |-> "", df_retrieval |-> <<>>, top_k_rows |-> <<>>,
           contexts |-> <<>>]

FirstN(s, n) == SubSeq(s, 1, Min2(n, Len(s)))

\* sorted(left, key=lambda i: sc[i], reverse=True): descending, and stable, so
\* equal scores keep their index order
RECURSIVE SortedDescending(_, _)
SortedDescending(sc, left) ==
    IF left = {} THEN <<>>
    ELSE LET i == CHOOSE x \in left :
                    \A y \in left : sc[x] > sc[y] \/ (sc[x] = sc[y] /\ x <= y)
         IN <<i>> \o SortedDescending(sc, left \ {i})

\* top_indices of the BM25 branch
top_indices(sc) == FirstN(SortedDescending(sc, 1..Len(sc)), top_k * 2)

\* The order in which the store returns equally distant chunks: by
\* ascending or by descending id
TieOrders == {1, -1}

\* The chunks of `left` by ascending distance, ties in the order `ties`
RECURSIVE NearestFirst(_, _, _)
NearestFirst(dist, left, ties) ==
    IF left = {} THEN <<>>
    ELSE LET i == CHOOSE x \in left :
                    \A y \in left :
                       dist[x] < dist[y] \/ (dist[x] = dist[y] /\ ties * x <= ties * y)
         IN <<i>> \o NearestFirst(dist, left \ {i}, ties)

\* collection.query(query_texts=[question], n_results=...): the ids of the
\* n_results nearest chunks (all of them when there are fewer), by ascending
\* distance
QueryResults(dist, n_results, ties) ==
    FirstN(NearestFirst(dist, 1..Len(dist), ties), n_results)

\* Mutant: the distance is stored as the score
Similarity_Raw(distance) == distance

\* 'score': 1.0 - score  (distance to similarity)
Similarity(distance) == 1 - distance

\* The chunk ids of one question, best first
Ranking(q, ties) ==
    IF text_retriever = "bm25" THEN top_indices(scores[q])
    ELSE QueryResults(scores[q], top_k * 2, ties)

\* The rows appended for one dataset row: rank is the position, from 1
RowsOf(q, ids) ==
    [r \in 1..Len(ids) |->
       [q_id |-> q, chunk |-> ids[r], rank |-> r,
        score |-> IF text_retriever = "bm25" THEN scores[q][ids[r]]
                  ELSE Similarity(scores[q][ids[r]])]]

\* `results` after the loop over self.df.iterrows() from row i on; a row whose
\* scoring raises is logged and adds nothing
RECURSIVE ResultsFrom(_, _)
ResultsFrom(ties, i) ==
    IF i > Len(df) THEN <<>>
    ELSE (IF askable[df[i]] THEN RowsOf(df[i], Ranking(df[i], ties)) ELSE <<>>)
         \o ResultsFrom(ties, i + 1)

\* Every `results` a build of the present dataset can write
TextResults ==
    {ResultsFrom(ties, 1) : ties \in IF text_retriever = "bm25" THEN {1} ELSE TieOrders}

TextBuildOutcomes == {"ok", "raise"}

\* The file after build_text_index ended `outcome` having computed `results`
TextBuildResult(table, outcome, results) ==
    IF outcome = "ok" THEN [st |-> "built", rows |-> results] ELSE table

\* df_retrieval[df_retrieval['q_id'] == query_id]
QueryRows(rows, q) == SelectSeq(rows, LAMBDA row : row.q_id = q)

\* rows.sort_values(by='rank', ascending=True).head(n): the n rows of lowest
\* rank, in ascending rank order.  Rows of equal rank are the rows of
\* duplicated dataset rows, equal in every column.
RECURSIVE SortedByRankHead(_, _)
SortedByRankHead(rows, n) ==
    IF rows = <<>> \/ n = 0 THEN <<>>
    ELSE LET i == CHOOSE x \in DOMAIN rows :
                    \A y \in DOMAIN rows :
                       rows[x].rank < rows[y].rank
                       \/ (rows[x].rank = rows[y].rank /\ x <= y)
         IN <<rows[i]>>
            \o SortedByRankHead(SubSeq(rows, 1, i - 1) \o SubSeq(rows, i + 1, Len(rows)),
                                n - 1)

\* query_rows.sort_values(by='rank', ascending=True).head(self.top_k)
TextTopK(query_rows) == SortedByRankHead(query_rows, top_k)

\* One dataset and one configuration, nothing on disk; the dense retrievers
\* differ in the embedding model only, one of them stands for the three
InitText ==
    /\ df \in SeqsUpTo(QueryIds, MaxDf)
    /\ force_reindex \in BOOLEAN
    /\ jsonable = [q \in QueryIds |-> TRUE]
    /\ visual_file = [q \in QueryIds |-> "absent"]
    /\ textual_file = [q \in QueryIds |-> "absent"]
    /\ combined_file = [q \in QueryIds |-> NoCombined]
    /\ vision_retrieval_file = NoTable
    /\ text_retrieval_file = NoTable
    /\ pc = "idle"
    /\ query_id = "q1"
    /\ run_idx = 0
    /\ Locals0
    /\ RunIdle
    /\ AlignIdle
    /\ vision_retriever = "colpali"
    /\ text_retriever \in {"bm25", "minilm"}
    /\ retrieval_dir = <<>>
    /\ last_read = <<>>
    /\ top_k = TopK
    /\ \E n \in 1..MaxChunks : scores \in [QueryIds -> [1..n -> ScoreValues]]
    /\ \A q \in QueryIds \ Range(df) : \A i \in DOMAIN scores[q] : scores[q][i] = 0
    /\ askable \in [QueryIds -> BOOLEAN]
    /\ \A q \in QueryIds \ Range(df) : askable[q]
    /\ \A q \in QueryIds : ~askable[q] => \A i \in DOMAIN scores[q] : scores[q][i] = 0
    /\ text_rows = NoRows
    /\ textual_read = NoRead
    /\ VisualIdle
    /\ ParseIdle

\* not os.path.exists(self.text_retrieval_file) or self.force_reindex
NeedTextRows == text_rows.st = "absent" \/ force_reindex

\* build_text_index() called on its own; what the read before it returned
\* is gone
BuildTextIndex ==
    /\ \E outcome \in TextBuildOutcomes, results \in TextResults :
         text_rows' = TextBuildResult(text_rows, outcome, results)
    /\ textual_read' = NoRead
    /\ UNCHANGED <<orch_vars, run_vars, align_vars, store_vars, top_k, scores,
                   askable, visual_vars, parse_vars>>

\* retrieve_textual_contexts(q): the conditional build (an empty list when it
\* fails), the build of line 741, then the read of the table.  `results` is
\* what the last build that wrote the file computed.
RetrieveTextualContexts(q) ==
    /\ \E results \in TextResults :
       \E o1 \in IF NeedTextRows THEN TextBuildOutcomes ELSE {"ok"} :
       \E o2 \in IF NeedTextRows /\ o1 # "ok" THEN {"raise"} ELSE TextBuildOutcomes :
         LET first == NeedTextRows
             t1 == IF first THEN TextBuildResult(text_rows, o1, results)
                   ELSE text_rows
             gaveup == first /\ o1 # "ok"
             t2 == IF gaveup THEN t1 ELSE TextBuildResult(t1, o2, results)
             loaded == ~gaveup /\ t2.st = "built"
             query_rows == IF loaded THEN QueryRows(t2.rows, q) ELSE <<>>
             top_k_rows == TextTopK(query_rows)
         IN /\ text_rows' = t2
            /\ textual_read' =
                 [query_id |-> q,
                  df_retrieval |-> IF loaded THEN t2.rows ELSE <<>>,
                  top_k_rows |-> top_k_rows,
                  contexts |-> [i \in DOMAIN top_k_rows |-> top_k_rows[i].chunk]]
    /\ UNCHANGED <<orch_vars, run_vars, align_vars, store_vars, top_k, scores,
                   askable, visual_vars, parse_vars>>

NextText ==
    \/ BuildTextIndex
    \/ \E q \in QueryIds : RetrieveTextualContexts(q)

SpecText == InitText /\ [][NextText]_vars

-----------------------------------------------------------------------------
(* The visual table in detail: build_visual_index and the read of           *)
(* retrieve_visual_contexts.  A document name is <<stem, suffix>>; a page   *)
(* id "{doc_id}_{page_idx}" is kept as the pair it is split back into by    *)
(* rsplit('_', 1).                                                          *)

DocNames == {<<"d1", "">>, <<"d2", ".pdf">>}

\* The pages of the PDF files: d1 has two pages, d2 has one
PageList == <<[doc_id |-> "d1", page_idx |-> 0], [doc_id |-> "d1", page_idx |-> 1],
              [doc_id |-> "d2", page_idx |-> 0]>>

\* The 'documents' cell of a dataset row: no such column, text that eval
\* rejects or that is no list of strings, or a list of document names
Cells ==
    {[kind |-> "absent", docs |-> {}], [kind |-> "unparsable", docs |-> {}]}
    \cup {[kind |-> "list", docs |-> D] : D \in SUBSET DocNames}

\* The 'doc_path' cell: empty, or the path of one document
DocPaths == {{}, {<<"d2", ".pdf">>}}

\* doc.split(".pdf")[0], and os.path.splitext(pdf_file)[0] of the file name
\* made from the name at lines 356-359
Stem(name) == name[1]

\* unique_docs after the loop over the dataset rows
unique_docs ==
    UNION {(IF dataset[df[i]].documents.kind = "list"
            THEN dataset[df[i]].documents.docs ELSE {})
           \cup dataset[df[i]].doc_path : i \in DOMAIN df}

\* [os.path.splitext(f)[0] for f in pdf_files]
PdfStems == {Stem(name) : name \in unique_docs}

\* The keys of page_embeddings after the loop over pdf_files, as indexes of
\* PageList, in insertion order
ProcessedPages ==
    SelectSeq([k \in DOMAIN PageList |-> k],
              LAMBDA k : k \in page_embeddings /\ PageList[k].doc_id \in PdfStems)

\* relevant_docs of a query (lines 451-467)
relevant_docs(q) ==
    LET cell == dataset[q].documents
        listed == {Stem(name) : name \in cell.docs}
    IN IF cell.kind = "list" /\ listed # {} THEN listed ELSE PdfStems

\* Mutant: every processed page is a candidate
IsRelevant_Any(doc_id, docs) == TRUE

\* `if doc_id in relevant_docs:`
IsRelevant(doc_id, docs) == doc_id \in docs

\* The keys of relevant_page_embeddings, in insertion order
relevant_page_embeddings(q) ==
    SelectSeq(ProcessedPages,
              LAMBDA k : IsRelevant(PageList[k].doc_id, relevant_docs(q)))

\* The rows of one query: np.argsort(-scores) over the candidates.  With no
\* candidate torch.cat raises, with one candidate ds[1] raises; the handler
\* of line 509 logs the error and the query gets no row.
RankedRows(q, ties) ==
    LET keys == relevant_page_embeddings(q)
        negated == [i \in DOMAIN keys |-> 0 - page_scores[keys[i]]]
        order == NearestFirst(negated, DOMAIN keys, ties)
    IN IF Len(keys) < 2 THEN <<>>
       ELSE [i \in DOMAIN order |->
               [q_id |-> q, document_id |-> PageList[keys[order[i]]],
                score |-> page_scores[keys[order[i]]]]]

\* `results` after the loop over query_embeddings, from the i-th distinct
\* query id on
RECURSIVE VisualResultsFrom(_, _)
VisualResultsFrom(ties, i) ==
    IF i > Len(Unique(df)) THEN <<>>
    ELSE (IF Unique(df)[i] \in query_embeddings
          THEN RankedRows(Unique(df)[i], ties) ELSE <<>>)
         \o VisualResultsFrom(ties, i + 1)

VisualResults == {VisualResultsFrom(ties, 1) : ties \in TieOrders}

\* not os.path.exists(self.vision_retrieval_file) or self.force_reindex
NeedVisualRows == vision_rows.st = "absent" \/ force_reindex

\* Mutant: the rows of lowest score are taken
Outscores_Lower(x, y) == x.score < y.score

Outscores(x, y) == x.score > y.score

\* rows.nlargest(n, 'score'): the n rows of highest score, in descending
\* order, rows of equal score in file order
RECURSIVE NLargest(_, _)
NLargest(rows, n) ==
    IF rows = <<>> \/ n = 0 THEN <<>>
    ELSE LET i == CHOOSE x \in DOMAIN rows :
                    \A y \in DOMAIN rows :
                       Outscores(rows[x], rows[y])
                       \/ (~Outscores(rows[y], rows[x]) /\ x <= y)
         IN <<rows[i]>>
            \o NLargest(SubSeq(rows, 1, i - 1) \o SubSeq(rows, i + 1, Len(rows)), n - 1)

\* The subsequence of s at the positions of keep
Keep(s, keep) ==
    LET pos == SelectSeq([i \in DOMAIN s |-> i], LAMBDA i : i \in keep)
    IN [j \in DOMAIN pos |-> s[pos[j]]]

\* The query ids in the order of the dataset file
QueryList == <<"q1", "q2">>

\* A dataset holding some of the queries once each (the build keys its
\* queries by q_id), nothing on disk
InitVisual ==
    /\ df \in {Keep(QueryList, S) : S \in (SUBSET DOMAIN QueryList) \ {{}}}
    /\ force_reindex \in BOOLEAN
    /\ jsonable = [q \in QueryIds |-> TRUE]
    /\ visual_file = [q \in QueryIds |-> "absent"]
    /\ textual_file = [q \in QueryIds |-> "absent"]
    /\ combined_file = [q \in QueryIds |-> NoCombined]
    /\ vision_retrieval_file = NoTable
    /\ text_retrieval_file = NoTable
    /\ pc = "idle"
    /\ query_id = "q1"
    /\ run_idx = 0
    /\ Locals0
    /\ RunIdle
    /\ AlignIdle
    /\ StoreIdle
    /\ top_k = TopK
    /\ scores = <<>>
    /\ askable = <<>>
    /\ text_rows = <<>>
    /\ textual_read = <<>>
    /\ dataset \in [QueryIds -> [documents : Cells, doc_path : DocPaths]]
    /\ \A q, r \in QueryIds :
         dataset[q].documents.kind = "absent" => dataset[r].documents.kind = "absent"
    /\ \A q \in QueryIds \ Range(df) :
         dataset[q].documents.docs = {} /\ dataset[q].documents.kind # "unparsable"
    /\ \A q \in QueryIds : dataset[q].doc_path # {} => df # <<>> /\ q = df[1]
    /\ page_embeddings \in SUBSET DOMAIN PageList
    /\ query_embeddings \in SUBSET Range(df)
    /\ page_scores \in [DOMAIN PageList -> ScoreValues]
    /\ \A k \in DOMAIN PageList : k \notin page_embeddings => page_scores[k] = 0
    /\ vision_rows = NoRows
    /\ visual_read = NoRead
    /\ ParseIdle

\* build_visual_index() called on its own; what the read before it returned
\* is gone
BuildVisualIndex ==
    /\ \E outcome \in TextBuildOutcomes, results \in VisualResults :
         vision_rows' = TextBuildResult(vision_rows, outcome, results)
    /\ visual_read' = NoRead
    /\ UNCHANGED <<orch_vars, run_vars, align_vars, store_vars, text_vars, dataset,
                   page_embeddings, query_embeddings, page_scores, parse_vars>>

\* retrieve_visual_contexts(q): the build on demand (an empty list when it
\* fails), the read of the table, the top_k rows by score, and the page
\* image of each of them; a row whose image cannot be loaded is left out
RetrieveVisualContexts(q) ==
    /\ \E results \in VisualResults :
       \E outcome \in IF NeedVisualRows THEN TextBuildOutcomes ELSE {"ok"} :
         LET build == NeedVisualRows
             table == IF build THEN TextBuildResult(vision_rows, outcome, results)
                      ELSE vision_rows
             loaded == ~(build /\ outcome # "ok") /\ table.st = "built"
             query_rows == IF loaded THEN QueryRows(table.rows, q) ELSE <<>>
             top_k_rows == NLargest(query_rows, top_k)
         IN /\ vision_rows' = table
            /\ \E found \in SUBSET DOMAIN top_k_rows :
                 visual_read' =
                   [query_id |-> q,
                    df_retrieval |-> IF loaded THEN table.rows ELSE <<>>,
                    top_k_rows |-> top_k_rows,
                    contexts |-> Keep(top_k_rows, found)]
    /\ UNCHANGED <<orch_vars, run_vars, align_vars, store_vars, text_vars, dataset,
                   page_embeddings, query_embeddings, page_scores, parse_vars>>

NextVisual ==
    \/ BuildVisualIndex
    \/ \E q \in QueryIds : RetrieveVisualContexts(q)

SpecVisual == InitVisual /\ [][NextVisual]_vars

-----------------------------------------------------------------------------
(* C12, C15: the visual table *)

\* The documents a dataset row lists, by the name their pages carry
ListedDocs(q) == {name[1] : name \in dataset[q].documents.docs}

\* The pages the rows of a query name
RowPages(q) ==
    {vision_rows.rows[i].document_id :
       i \in {j \in DOMAIN vision_rows.rows : vision_rows.rows[j].q_id = q}}

\* C12: in the visual table written by build_visual_index, for every query
\* whose relevant-document list is non-empty every row of that query names a
\* page of a document of that list; when the list is absent, empty or
\* unparsable, the candidates are all processed pages.
C12_RelevantPagesOnly ==
    vision_rows.st = "built" =>
      \A q \in QueryIds :
         /\ ListedDocs(q) # {} => \A page \in RowPages(q) : page.doc_id \in ListedDocs(q)
         /\ (ListedDocs(q) = {} /\ RowPages(q) # {})
              => RowPages(q) = {PageList[k] : k \in Range(ProcessedPages)}

\* C12 witness: a table in which a query that lists one document has rows
\* while a page of another document was processed, and another query without
\* a usable list has a row for every processed page
C12_Witness ==
    /\ vision_rows.st = "built"
    /\ \E q \in QueryIds :
         /\ ListedDocs(q) # {}
         /\ RowPages(q) # {}
         /\ \E k \in Range(ProcessedPages) : PageList[k].doc_id \notin ListedDocs(q)
    /\ \E q \in QueryIds :
         /\ dataset[q].documents.kind = "unparsable"
         /\ Cardinality(RowPages(q)) = 3

\* The positions of the loaded table that hold a row of the query read
VisualQueryRows ==
    {i \in DOMAIN visual_read.df_retrieval :
       visual_read.df_retrieval[i].q_id = visual_read.query_id}

\* C15: a visual read for query q returns contexts drawn only from table rows
\* whose q_id is q, at most top_k of them, and the rows it selects are the
\* min(top_k, n) rows of q with the highest scores (every selected row scores
\* at least as high as every unselected row of q); when q has no rows it
\* returns an empty list.
C15_VisualReadTopK ==
    visual_read.query_id # "" =>
      LET table == visual_read.df_retrieval
          selected == {i \in VisualQueryRows :
                         \E j \in DOMAIN visual_read.top_k_rows :
                            visual_read.top_k_rows[j] = table[i]}
      IN /\ \A c \in Range(visual_read.contexts) :
              \E i \in selected : table[i] = c
         /\ Len(visual_read.contexts) <= top_k
         /\ Len(visual_read.top_k_rows) = Min2(top_k, Cardinality(VisualQueryRows))
         /\ Cardinality(selected) = Len(visual_read.top_k_rows)
         /\ \A i \in selected : \A j \in VisualQueryRows \ selected :
              table[i].score >= table[j].score
         /\ VisualQueryRows = {} => visual_read.contexts = <<>>

\* C15 witness: a read that took the best of three rows of the query, the
\* file's first row of the query not being among the best, and whose page
\* image was loaded
C15_Witness ==
    /\ visual_read.query_id # ""
    /\ Cardinality(VisualQueryRows) = 3
    /\ Len(visual_read.contexts) = top_k
    /\ \E i \in VisualQueryRows :
         visual_read.df_retrieval[i].score < visual_read.contexts[1].score

-----------------------------------------------------------------------------
(* C11: rank and score in the textual table *)

\* C11: in the persisted textual table, for any two rows of the same query
\* the row with the smaller rank has a score greater than or equal to the
\* other's (raw score for bm25, 1 - distance for the dense retrievers); the
\* rows of rank 1 have the best score of the query.
C11_RankFollowsScore ==
    text_rows.st = "built" =>
      \A i, j \in DOMAIN text_rows.rows :
         LET a == text_rows.rows[i]
             b == text_rows.rows[j]
         IN (a.q_id = b.q_id /\ a.rank < b.rank) => a.score >= b.score

\* C11 witness: a table built by a dense retriever from a dataset that names
\* the same query twice, where the score falls from rank 1 to rank 2
C11_Witness ==
    /\ text_rows.st = "built"
    /\ text_retriever # "bm25"
    /\ \E i, j \in DOMAIN df : i # j /\ df[i] = df[j]
    /\ \E i, j \in DOMAIN text_rows.rows :
         /\ text_rows.rows[i].q_id = text_rows.rows[j].q_id
         /\ text_rows.rows[i].rank = 1
         /\ text_rows.rows[j].rank = 2
         /\ text_rows.rows[i].score > text_rows.rows[j].score

-----------------------------------------------------------------------------
(* C16: the textual read *)

\* The positions of the loaded table that hold a row of the query that was
\* read with rank at most top_k
RowsWithinTopK ==
    {i \in DOMAIN textual_read.df_retrieval :
       /\ textual_read.df_retrieval[i].q_id = textual_read.query_id
       /\ textual_read.df_retrieval[i].rank <= top_k}

\* C16: a textual read for query q returns exactly the table rows of q whose
\* rank is at most top_k, in ascending rank order, for every dataset (also one
\* that names the same query id on more than one row); when q has no rows it
\* returns an empty list.
C16_TextReadRankWithinTopK ==
    textual_read.query_id # "" =>
      /\ Len(textual_read.contexts) = Cardinality(RowsWithinTopK)
      /\ \A i \in DOMAIN textual_read.top_k_rows :
           /\ textual_read.top_k_rows[i].q_id = textual_read.query_id
           /\ textual_read.top_k_rows[i].rank <= top_k
           /\ textual_read.contexts[i] = textual_read.top_k_rows[i].chunk
           /\ \E j \in RowsWithinTopK :
                textual_read.df_retrieval[j] = textual_read.top_k_rows[i]
      /\ \A i, j \in DOMAIN textual_read.top_k_rows :
           i < j => textual_read.top_k_rows[i].rank <= textual_read.top_k_rows[j].rank

-----------------------------------------------------------------------------
(* The parsing of model replies: extract_sections and                       *)
(* parse_combined_output.  A text is a sequence of tokens: "H1", "H2", "H3" *)
(* are the three headings of the parsing function at hand, written          *)
(* `## <name>:` ("H1" is `## Evidence:` for extract_sections and            *)
(* `## Analysis:` for parse_combined_output, and so on), "U" is a heading   *)
(* `## <other name>:` of neither list, "x" is a word, " " and "\n" are      *)
(* white space.                                                             *)

MaxText == 4        \* tokens of an arbitrary reply
MaxContent == 2     \* tokens of each section of a well-formed reply

Tokens == {"H1", "H2", "H3", "U", "x", " ", "\n"}
Headings == <<"H1", "H2", "H3">>
Whitespace == {" ", "\n"}

\* Sequences over S of length 0..n
TextsUpTo(S, n) == {<<>>} \cup UNION {[1..k -> S] : k \in 1..n}

\* A reply in the form the prompts ask for: the three headings in order,
\* each followed by a content without headings
WellFormed ==
    {<<"H1">> \o A \o <<"H2">> \o B \o <<"H3">> \o C :
       A, B, C \in TextsUpTo({"x", "\n"}, MaxContent)}

\* Mutant: nothing is trimmed
Strip_Keep(s) == s

\* str.strip()
Strip(s) ==
    LET solid == {i \in DOMAIN s : s[i] \notin Whitespace}
    IN IF solid = {} THEN <<>>
       ELSE SubSeq(s, CHOOSE i \in solid : \A j \in solid : i <= j,
                      CHOOSE i \in solid : \A j \in solid : i >= j)

\* The first position from `from` on that holds the token, 0 when none does
Find(s, token, from) ==
    LET at == {i \in DOMAIN s : i >= from /\ s[i] = token}
    IN IF at = {} THEN 0 ELSE CHOOSE i \in at : \A j \in at : i <= j

\* re.search of `## {heading}:(.*?)(?=## {next_heading}:)`, or of
\* `## {heading}:(.*)` for the last heading, with re.DOTALL: group 1 of the
\* leftmost match, stripped; "" when there is no match
Section(s, i) ==
    LET start == Find(s, Headings[i], 1)
        stop == IF i < Len(Headings) THEN Find(s, Headings[i + 1], start + 1)
                ELSE Len(s) + 1
    IN IF start = 0 \/ stop = 0 THEN <<>>
       ELSE Strip(SubSeq(s, start + 1, stop - 1))

extract_sections(s) == [i \in DOMAIN Headings |-> Section(s, i)]

\* output.split('\n'), from position `from` on
RECURSIVE Lines(_, _)
Lines(s, from) ==
    LET nl == Find(s, "\n", from)
    IN IF nl = 0 THEN <<SubSeq(s, from, Len(s))>>
       ELSE <<SubSeq(s, from, nl - 1)>> \o Lines(s, nl + 1)

\* line.startswith('## ')
IsHeadingLine(line) == line # <<>> /\ line[1] \in {"H1", "H2", "H3", "U"}

\* line[3:].strip(':') as an index of Headings, 0 when it is none of the
\* three names: the name is one of them only when the line is the heading
\* alone, since strip(':') removes nothing but colons
current_section(line) ==
    IF Len(line) = 1 /\ line[1] \in Range(Headings)
    THEN CHOOSE i \in DOMAIN Headings : Headings[i] = line[1]
    ELSE 0

\* The loop over the lines, from line n on
RECURSIVE ParseLines(_, _, _, _)
ParseLines(lines, n, current, acc) ==
    IF n > Len(lines) THEN acc
    ELSE IF IsHeadingLine(lines[n])
         THEN ParseLines(lines, n + 1, current_section(lines[n]), acc)
         ELSE IF current # 0
              THEN ParseLines(lines, n + 1, current,
                              [acc EXCEPT ![current] = @ \o lines[n] \o <<"\n">>])
              ELSE ParseLines(lines, n + 1, current, acc)

parse_combined_output(s) ==
    LET acc == ParseLines(Lines(s, 1), 1, 0, [i \in DOMAIN Headings |-> <<>>])
    IN [i \in DOMAIN Headings |-> Strip(acc[i])]

\* Any reply of a model, nothing parsed yet
InitParse ==
    /\ df = <<"q1">>
    /\ force_reindex = FALSE
    /\ jsonable = [q \in QueryIds |-> TRUE]
    /\ visual_file = [q \in QueryIds |-> "absent"]
    /\ textual_file = [q \in QueryIds |-> "absent"]
    /\ combined_file = [q \in QueryIds |-> NoCombined]
    /\ vision_retrieval_file = NoTable
    /\ text_retrieval_file = NoTable
    /\ pc = "idle"
    /\ query_id = "q1"
    /\ run_idx = 0
    /\ Locals0
    /\ RunIdle
    /\ AlignIdle
    /\ StoreIdle
    /\ TextIdle
    /\ VisualIdle
    /\ response_text \in TextsUpTo(Tokens, MaxText) \cup WellFormed
    /\ sections = <<>>
    /\ combined_sections = <<>>

\* extract_sections(text)
ExtractSections ==
    /\ sections' = extract_sections(response_text)
    /\ UNCHANGED <<orch_vars, run_vars, align_vars, store_vars, text_vars, visual_vars,
                   response_text, combined_sections>>

\* parse_combined_output(output)
ParseCombinedOutput ==
    /\ combined_sections' = parse_combined_output(response_text)
    /\ UNCHANGED <<orch_vars, run_vars, align_vars, store_vars, text_vars, visual_vars,
                   response_text, sections>>

NextParse == ExtractSections \/ ParseCombinedOutput

SpecParse == InitParse /\ [][NextParse]_vars

-----------------------------------------------------------------------------
(* C13, C14: the sections of a reply *)

\* r is s without its leading and trailing white space
IsTrimOf(r, s) ==
    /\ r = <<>> \/ (r[1] \notin Whitespace /\ r[Len(r)] \notin Whitespace)
    /\ \E a \in 0..Len(s) :
         /\ a + Len(r) <= Len(s)
         /\ r = SubSeq(s, a + 1, a + Len(r))
         /\ \A i \in DOMAIN s : (i <= a \/ i > a + Len(r)) => s[i] \in Whitespace

\* The positions of a token in the reply
Occurrences(token) == {i \in DOMAIN response_text : response_text[i] = token}

\* The reply is the three headings in order, once each, each followed by a
\* content without headings
InOrder ==
    /\ \A i \in DOMAIN Headings : Cardinality(Occurrences(Headings[i])) = 1
    /\ \A i \in Occurrences("H1"), j \in Occurrences("H2"), k \in Occurrences("H3") :
         i < j /\ j < k

\* C13: extract_sections is total and returns exactly the keys Evidence,
\* Chain of Thought and Answer: on text with the three headings in order
\* followed by contents A, B, C it yields Evidence=A, Chain of Thought=B,
\* Answer=C (whitespace-trimmed), and for any text in which a heading does
\* not occur the value of that section is the empty string.
C13_ExtractSections ==
    sections # <<>> =>
      /\ DOMAIN sections = DOMAIN Headings
      /\ \A i \in DOMAIN Headings :
           /\ sections[i] \in Seq(Tokens)
           /\ Occurrences(Headings[i]) = {} => sections[i] = <<>>
      /\ InOrder =>
           \A i \in Occurrences("H1"), j \in Occurrences("H2"), k \in Occurrences("H3") :
              /\ IsTrimOf(sections[1], SubSeq(response_text, i + 1, j - 1))
              /\ IsTrimOf(sections[2], SubSeq(response_text, j + 1, k - 1))
              /\ IsTrimOf(sections[3], SubSeq(response_text, k + 1, Len(response_text)))

\* C13 witness: a well-formed reply whose contents have white space around a
\* word has been parsed into its three words
C13_Witness ==
    /\ response_text = <<"H1", "\n", "x", "H2", "x", "\n", "H3", "\n", "x">>
    /\ sections = <<<<"x">>, <<"x">>, <<"x">>>>

\* The positions at which a line of the reply that starts with `## ` starts
HeadingLineStarts ==
    {i \in DOMAIN response_text :
       /\ response_text[i] \in {"H1", "H2", "H3", "U"}
       /\ i = 1 \/ response_text[i - 1] = "\n"}

\* C14: parse_combined_output is total and returns exactly the keys
\* Analysis, Conclusion and Final Answer: each section's value is the text
\* from its `## <name>:` heading up to the next heading line (trimmed), and
\* a section whose heading does not occur in the reply is the empty string.
\* Stated for replies in which each heading occurs at most once and only at
\* the start of a line.
C14_ParseCombinedSections ==
    (/\ combined_sections # <<>>
     /\ \A i \in DOMAIN Headings :
          /\ Cardinality(Occurrences(Headings[i])) <= 1
          /\ Occurrences(Headings[i]) \subseteq HeadingLineStarts)
    => /\ DOMAIN combined_sections = DOMAIN Headings
       /\ \A i \in DOMAIN Headings :
            /\ Occurrences(Headings[i]) = {} => combined_sections[i] = <<>>
            /\ \A p \in Occurrences(Headings[i]) :
                 LET later == {e \in HeadingLineStarts : e > p}
                     stop == IF later = {} THEN Len(response_text) + 1
                             ELSE CHOOSE e \in later : \A f \in later : e <= f
                 IN IsTrimOf(combined_sections[i], SubSeq(response_text, p + 1, stop - 1))

\* The same for replies in which every heading line is the heading alone
C14_HeadingsAloneOnLine ==
    (\A p \in HeadingLineStarts :
        p = Len(response_text) \/ response_text[p + 1] = "\n")
    => C14_ParseCombinedSections

-----------------------------------------------------------------------------
(* C17: the loop of run() *)

\* The first row of the dataset that holds the query id
FirstAppearance(q) ==
    CHOOSE i \in DOMAIN df : df[i] = q /\ \A j \in DOMAIN df : df[j] = q => i <= j

\* The distinct ids of the dataset that first appear before q
AppearBefore(q) == {r \in Range(df) : FirstAppearance(r) < FirstAppearance(q)}

\* C17: run() calls process_query exactly once for each distinct query id of
\* the dataset, one at a time in order of first appearance, and a query that
\* fails (returns False) or raises never prevents the later queries from
\* being processed.  The k-th call of a run is for the id with k - 1 distinct
\* ids before it; the call in progress changes only when the one before has
\* returned; whatever it returned, the loop goes on to the next id while one
\* is left, and ends only when every distinct id has had its call.
C17_RunCallsEachQueryOnce ==
    [][/\ run_idx' > 0 =>
            IF run_idx' # run_idx
            THEN /\ run_idx' = run_idx + 1
                 /\ pc' = "start"
                 /\ query_id' \in Range(df)
                 /\ Cardinality(AppearBefore(query_id')) = run_idx
            ELSE query_id' = query_id
       /\ run_idx' # run_idx => pc \in {"idle", "ret"}
       /\ (run_idx > 0 /\ pc = "ret") =>
            IF run_idx < Cardinality(Range(df))
            THEN run_idx' = run_idx + 1
            ELSE run_idx' = 0 /\ pc' = "idle"]_vars

\* C17 witness: run() is processing the second query after the call for the
\* first one returned False
C17_Witness ==
    /\ run_idx = 2
    /\ pc = "fuse"
    /\ df = <<"q2", "q1", "q2">> \/ df = <<"q2", "q1">>
    /\ query_id = "q1"
    /\ visual_file["q2"] = "partial"
    /\ ~Exists(combined_file["q2"].kind)

-----------------------------------------------------------------------------
(* Runs of the pipeline with their history: run() is the only caller of     *)
(* process_query and run_log keeps the index builds and generation calls    *)
(* made since the run started.                                              *)

\* A retrieval table left by an earlier configuration run, or none
TablesAtStart == {NoTable, [st |-> "built", rows |-> Range(df)]}

InitRun ==
    /\ df \in SeqsUpTo(QueryIds, MaxDf)
    /\ force_reindex \in BOOLEAN
    /\ jsonable \in [QueryIds -> BOOLEAN]
    /\ visual_file = [q \in QueryIds |-> "absent"]
    /\ textual_file = [q \in QueryIds |-> "absent"]
    /\ combined_file = [q \in QueryIds |-> NoCombined]
    /\ vision_retrieval_file \in TablesAtStart
    /\ text_retrieval_file \in TablesAtStart
    /\ pc = "idle"
    /\ query_id = "q1"
    /\ run_idx = 0
    /\ Locals0
    /\ run_log = <<>>
    /\ run_traced = TRUE
    /\ AlignIdle
    /\ StoreIdle
    /\ TextIdle
    /\ VisualIdle
    /\ ParseIdle

NextRun ==
    \/ RunStart
    \/ RunNext
    \/ PQ_Begin
    \/ PQ_VisualLoad
    \/ PQ_VisualRetrieve
    \/ PQ_VisualGenerate
    \/ PQ_TextualLoad
    \/ PQ_TextualRetrieve
    \/ PQ_TextualGenerate
    \/ PQ_Missing
    \/ PQ_Combine

SpecRun == InitRun /\ [][NextRun]_vars

-----------------------------------------------------------------------------
(* C20: index builds within one run *)

\* The positions of run_log that hold the event
RunPositions(event) == {i \in DOMAIN run_log : run_log[i] = event}

\* Within the run so far the index was built at most once, and no generation
\* call of the modality came before its build
BuiltOnceBeforeGeneration(build, generate) ==
    /\ Cardinality(RunPositions(build)) <= 1
    /\ \A b \in RunPositions(build), g \in RunPositions(generate) : b < g

\* C20: within one pipeline run (one run() over all queries), each
\* modality's index is built at most once, and that build precedes every
\* generation backend call that uses that modality's retrieval results; this
\* holds for every value of force_reindex and whether or not the table
\* existed at start.
C20_IndexBuiltOncePerRun ==
    /\ BuiltOnceBeforeGeneration("build_visual_index", "generate_visual_response")
    /\ BuiltOnceBeforeGeneration("build_text_index", "generate_textual_response")

-----------------------------------------------------------------------------
(* Re-runs of the pipeline: run() is started again and again on a dataset   *)
(* of one query, and the program always takes its next step.                *)

InitRerun ==
    /\ df \in {<<q>> : q \in QueryIds}
    /\ force_reindex \in BOOLEAN
    /\ jsonable \in [QueryIds -> BOOLEAN]
    /\ visual_file = [q \in QueryIds |-> "absent"]
    /\ textual_file = [q \in QueryIds |-> "absent"]
    /\ combined_file = [q \in QueryIds |-> NoCombined]
    /\ vision_retrieval_file \in TablesAtStart
    /\ text_retrieval_file \in TablesAtStart
    /\ pc = "idle"
    /\ query_id = "q1"
    /\ run_idx = 0
    /\ Locals0
    /\ RunIdle
    /\ AlignIdle
    /\ StoreIdle
    /\ TextIdle
    /\ VisualIdle
    /\ ParseIdle

SpecRerun == InitRerun /\ [][NextRun]_vars /\ WF_vars(NextRun)

-----------------------------------------------------------------------------
(* C18: convergence under re-runs *)

\* Neither retrieval of the call in progress came back empty and none of its
\* backend calls raised
Healthy ==
    /\ visual_contexts # "empty"
    /\ textual_contexts # "empty"
    /\ \A e \in Range(log) :
         e \notin {"except_generate_visual_response", "except_generate_textual_response",
                   "except_combine_responses"}

\* The artifacts of a query on disk
ArtifactsOf(q) == <<visual_file[q], textual_file[q], combined_file[q]>>

\* C18: the pipeline converges under re-runs: starting from any state
\* reachable by the orchestrator (including after failed or partial runs), if
\* from some point on both retrievals of a query return non-empty contexts
\* and backend calls return, then repeated runs eventually reach a state in
\* which that query's combined artifact exists, and every later run leaves
\* all of that query's artifacts unchanged.
C18_ConvergesUnderReruns ==
    <>[]Healthy =>
      \A q \in QueryIds :
         /\ <>[](q \in Range(df) => Exists(combined_file[q].kind))
         /\ <>[][ArtifactsOf(q)' = ArtifactsOf(q)]_vars

-----------------------------------------------------------------------------
(* The retrieval directory: the table files of the two modalities under the *)
(* retrievers of successive configurations of one dataset.                  *)

VisionRetrievers == {"colpali", "colqwen"}

\* The values config["vision_retriever"] and config["text_retriever"] take
ConfiguredRetrievers == {"colpali", "colqwen", "bm25", "minilm"}

\* Mutant: one table file whatever the retriever
RetrievalFile_Shared(retriever) == "retrieval.csv"

\* f"{self.data_dir}/retrieval/retrieval_{retriever}.csv", inside the directory
RetrievalFile(retriever) == "retrieval_" \o retriever \o ".csv"

\* os.path.exists(path)
InRetrievalDir(dir, path) == path \in DOMAIN dir

\* open(path, 'w') and the csv write: the directory with the file replaced
WriteFile(dir, path, content) ==
    [f \in DOMAIN dir \cup {path} |-> IF f = path THEN content ELSE dir[f]]

\* The directory after a build of the table of `modality` by `retriever`
\* that ended `outcome` with rows for the queries of R
BuildInto(dir, modality, retriever, outcome, R) ==
    CASE outcome = "ok" ->
           WriteFile(dir, RetrievalFile(retriever),
                     [st |-> "built", modality |-> modality, built_by |-> retriever,
                      rows |-> R])
      [] outcome = "raise" -> dir
      [] outcome = "raise_write" ->
           WriteFile(dir, RetrievalFile(retriever),
                     [st |-> "broken", modality |-> modality, built_by |-> retriever,
                      rows |-> {}])

\* What a retrieval read loaded: nothing, or the content of a table file
ReadOf(modality, retriever, dir, gaveup) ==
    IF ~gaveup /\ InRetrievalDir(dir, RetrievalFile(retriever))
    THEN [modality |-> modality, retriever |-> retriever,
          loaded |-> dir[RetrievalFile(retriever)]]
    ELSE [modality |-> modality, retriever |-> retriever,
          loaded |-> [st |-> "none", modality |-> modality, built_by |-> retriever,
                      rows |-> {}]]

\* A first configuration, an empty retrieval directory
InitStore ==
    /\ df = <<"q1">>
    /\ force_reindex \in BOOLEAN
    /\ jsonable = [q \in QueryIds |-> TRUE]
    /\ visual_file = [q \in QueryIds |-> "absent"]
    /\ textual_file = [q \in QueryIds |-> "absent"]
    /\ combined_file = [q \in QueryIds |-> NoCombined]
    /\ vision_retrieval_file = NoTable
    /\ text_retrieval_file = NoTable
    /\ pc = "idle"
    /\ query_id = "q1"
    /\ run_idx = 0
    /\ Locals0
    /\ RunIdle
    /\ AlignIdle
    /\ vision_retriever \in VisionRetrievers
    /\ text_retriever \in TextRetrievers \cap ConfiguredRetrievers
    /\ retrieval_dir = [f \in {} |-> NoTable]
    /\ last_read = ReadOf("visual", vision_retriever, retrieval_dir, TRUE)
    /\ TextIdle
    /\ VisualIdle
    /\ ParseIdle

\* VisDoMRAG(config) with other retrievers on the same data_dir; a retriever
\* that is not supported raises ValueError and there is no pipeline
Configure(v, t) ==
    /\ v \in VisionRetrievers
    /\ t \in TextRetrievers
    /\ vision_retriever' = v
    /\ text_retriever' = t
    /\ UNCHANGED <<orch_vars, run_vars, align_vars, retrieval_dir, last_read,
                   text_vars, visual_vars, parse_vars>>

\* build_visual_index()
StoreBuildVisual ==
    /\ \E outcome \in BuildOutcomes : \E R \in RowSets(outcome) :
         retrieval_dir' = BuildInto(retrieval_dir, "visual", vision_retriever, outcome, R)
    /\ UNCHANGED <<orch_vars, run_vars, align_vars, vision_retriever, text_retriever,
                   last_read, text_vars, visual_vars, parse_vars>>

\* build_text_index()
StoreBuildText ==
    /\ \E outcome \in BuildOutcomes : \E R \in RowSets(outcome) :
         retrieval_dir' = BuildInto(retrieval_dir, "text", text_retriever, outcome, R)
    /\ UNCHANGED <<orch_vars, run_vars, align_vars, vision_retriever, text_retriever,
                   last_read, text_vars, visual_vars, parse_vars>>

\* retrieve_visual_contexts: the build on demand, then pd.read_csv of the
\* visual table file
StoreReadVisual ==
    /\ \E outcome \in BuildOutcomes : \E R \in RowSets(outcome) :
         LET build == ~InRetrievalDir(retrieval_dir, RetrievalFile(vision_retriever))
                      \/ force_reindex
             dir == IF build
                    THEN BuildInto(retrieval_dir, "visual", vision_retriever, outcome, R)
                    ELSE retrieval_dir
         IN /\ retrieval_dir' = dir
            /\ last_read' = ReadOf("visual", vision_retriever, dir, build /\ outcome # "ok")
    /\ UNCHANGED <<orch_vars, run_vars, align_vars, vision_retriever, text_retriever,
                   text_vars, visual_vars, parse_vars>>

\* retrieve_textual_contexts: the conditional build, the build that follows
\* it, then pd.read_csv of the textual table file
StoreReadText ==
    /\ \E o1 \in BuildOutcomes, o2 \in BuildOutcomes :
       \E R1 \in RowSets(o1), R2 \in RowSets(o2) :
         LET first == ~InRetrievalDir(retrieval_dir, RetrievalFile(text_retriever))
                      \/ force_reindex
             d1 == IF first
                   THEN BuildInto(retrieval_dir, "text", text_retriever, o1, R1)
                   ELSE retrieval_dir
             gaveup == first /\ o1 # "ok"
             d2 == IF ~gaveup /\ SecondTextBuild
                   THEN BuildInto(d1, "text", text_retriever, o2, R2) ELSE d1
         IN /\ retrieval_dir' = d2
            /\ last_read' = ReadOf("text", text_retriever, d2, gaveup)
    /\ UNCHANGED <<orch_vars, run_vars, align_vars, vision_retriever, text_retriever,
                   text_vars, visual_vars, parse_vars>>

NextStore ==
    \/ \E v \in ConfiguredRetrievers, t \in ConfiguredRetrievers : Configure(v, t)
    \/ StoreBuildVisual
    \/ StoreBuildText
    \/ StoreReadVisual
    \/ StoreReadText

SpecStore == InitStore /\ [][NextStore]_vars

-----------------------------------------------------------------------------
(* C19: isolation of the retrieval tables *)

\* The table files a step wrote
Written ==
    {f \in DOMAIN retrieval_dir' :
       f \notin DOMAIN retrieval_dir \/ retrieval_dir'[f] # retrieval_dir[f]}

\* C19: the two modalities' retrieval tables are isolated: the table path is
\* determined by the retriever identity, a build of the visual index writes
\* only the visual table and a build of the textual index writes only the
\* textual table, so rebuilding one modality (or switching one retriever)
\* leaves the other modality's persisted table unchanged and never reads a
\* table built by a different retriever.  Every file a step writes is written
\* for one modality, by the retriever configured for it, over nothing or over
\* a table of that same modality and retriever; no file disappears; and a
\* read loads a table of its own modality built by the configured retriever.
C19_TablesIsolated ==
    [][/\ \A f \in Written :
            /\ retrieval_dir'[f].built_by =
                 (IF retrieval_dir'[f].modality = "visual" THEN vision_retriever
                  ELSE text_retriever)
            /\ f \in DOMAIN retrieval_dir =>
                 /\ retrieval_dir[f].modality = retrieval_dir'[f].modality
                 /\ retrieval_dir[f].built_by = retrieval_dir'[f].built_by
            /\ \A g \in Written : retrieval_dir'[g].modality = retrieval_dir'[f].modality
       /\ DOMAIN retrieval_dir \subseteq DOMAIN retrieval_dir'
       /\ last_read' # last_read =>
            /\ last_read'.loaded.modality = last_read'.modality
            /\ last_read'.loaded.built_by = last_read'.retriever
            /\ last_read'.retriever =
                 (IF last_read'.modality = "visual" THEN vision_retriever
                  ELSE text_retriever)]_vars

\* C19 witness: after a switch of the visual retriever the tables of both
\* visual retrievers and a textual table are on disk with different rows, and
\* the last read loaded the table built by the retriever now configured
C19_Witness ==
    /\ vision_retriever = "colqwen"
    /\ {"retrieval_colpali.csv", "retrieval_colqwen.csv", "retrieval_bm25.csv"}
         \subseteq DOMAIN retrieval_dir
    /\ retrieval_dir["retrieval_colpali.csv"].rows # retrieval_dir["retrieval_colqwen.csv"].rows
    /\ retrieval_dir["retrieval_bm25.csv"].modality = "text"
    /\ last_read.modality = "visual"
    /\ last_read.loaded = retrieval_dir["retrieval_colqwen.csv"]
    /\ last_read.loaded.st = "built"

-----------------------------------------------------------------------------
(* C21: the rows of a query in the visual table *)

\* The positions of the visual table that hold a row of the query for the page
RowsFor(q, page) ==
    {i \in DOMAIN vision_rows.rows :
       vision_rows.rows[i].q_id = q /\ vision_rows.rows[i].document_id = page}

\* The candidate pages of a query: the processed pages of its relevant
\* documents
CandidatePages(q) == {PageList[k] : k \in Range(relevant_page_embeddings(q))}

\* C21: for every query whose embedding succeeded and whose candidate page
\* set is non-empty (of any size from one page up), the visual table written
\* by build_visual_index contains exactly one row for each candidate page
\* whose embedding succeeded, and no other row for that query.
C21_OneRowPerCandidatePage ==
    vision_rows.st = "built" =>
      \A q \in Range(df) \cap query_embeddings :
         CandidatePages(q) # {} =>
           /\ \A page \in CandidatePages(q) : Cardinality(RowsFor(q, page)) = 1
           /\ RowPages(q) \subseteq CandidatePages(q)

-----------------------------------------------------------------------------
(* C22, C27: the two section parsers on the same reply *)

\* C22: parse_combined_output extracts sections by the same rule as
\* extract_sections: for every reply text, each section's content under the
\* two procedures is equal once heading names are mapped (Evidence/Chain of
\* Thought/Answer to Analysis/Conclusion/Final Answer), including when text
\* follows a heading on the same line, when an unknown `## ` heading line
\* occurs inside a section, and when a heading occurs twice.
C22_ParsersAgree ==
    (sections # <<>> /\ combined_sections # <<>>) =>
      \A i \in DOMAIN Headings : combined_sections[i] = sections[i]

\* The i-th heading occurs in the reply followed, after white space at most,
\* by a word
FollowedByContent(i) ==
    \E p \in Occurrences(Headings[i]) : \E j \in DOMAIN response_text :
       /\ j > p
       /\ response_text[j] = "x"
       /\ \A k \in (p + 1)..(j - 1) : response_text[k] \in Whitespace

\* C27: extract_sections returns a non-empty value for a section whenever
\* that section's own heading occurs in the text followed by non-blank
\* content, regardless of whether the next heading in the fixed order (Chain
\* of Thought after Evidence, Answer after Chain of Thought) occurs in the
\* text.
C27_SectionWithoutNextHeading ==
    sections # <<>> =>
      \A i \in DOMAIN Headings : FollowedByContent(i) => sections[i] # <<>>

-----------------------------------------------------------------------------
(* C23: what the combined artifact embeds *)

\* C23: over any sequence of process_query and run calls starting with no
\* artifacts: whenever a query's combined artifact exists, its visual
\* artifact and its textual artifact both exist, and the combined artifact's
\* response1 and response2 equal the contents of those two artifacts.
C23_CombinedEmbedsBoth ==
    \A q \in QueryIds :
       Exists(combined_file[q].kind) =>
         /\ Exists(visual_file[q])
         /\ Exists(textual_file[q])
         /\ combined_file[q].response1 = visual_file[q]
         /\ combined_file[q].response2 = textual_file[q]

\* C23 witness: a call that found the visual artifact of an earlier call on
\* disk, generated a different textual response and wrote the combined
\* artifact
C23_Witness ==
    /\ pc = "ret"
    /\ result = "True"
    /\ Logged("write_combined_file")
    /\ ~Logged("generate_visual_response")
    /\ Logged("generate_textual_response")
    /\ visual_file[query_id] = "r1"
    /\ textual_file[query_id] = "blank"

-----------------------------------------------------------------------------
(* C24: the value process_query returns *)

\* C24: process_query returns True if and only if the query's combined
\* artifact exists when it returns; in particular it never returns False
\* after having written the combined artifact and never returns True without
\* one, and it never raises (every call ends by returning True or False).
C24_TrueIffCombinedExists ==
    pc = "ret" =>
      /\ result \in {"True", "False"}
      /\ result = "True" <=> Exists(combined_file[query_id].kind)

\* C24 witness: a call made while the textual artifact is on disk, which
\* made the visual generation call and failed in its outer handler while
\* writing the visual artifact, returns False: two artifacts are on disk and
\* no combined one
C24_Witness ==
    /\ pc = "ret"
    /\ result = "False"
    /\ Logged("generate_visual_response")
    /\ Logged("except_process_query")
    /\ Exists(visual_file[query_id])
    /\ Exists(textual_file[query_id])
    /\ ~Exists(combined_file[query_id].kind)

-----------------------------------------------------------------------------
(* C25: the backend calls of one process_query call *)

\* The positions of the log of the running call that hold the event
LogPositions(event) == {i \in DOMAIN log : log[i] = event}

\* C25: in one process_query call the generation backend is invoked at most
\* once for the visual modality, at most once for the textual modality and
\* at most once for fusion, in that order, and the fusion call is made only
\* after both modality artifacts exist on disk.
C25_BackendCallsInOrder ==
    LET visual == LogPositions("generate_visual_response")
        textual == LogPositions("generate_textual_response")
        fusion == LogPositions("combine_responses")
    IN /\ Cardinality(visual) <= 1
       /\ Cardinality(textual) <= 1
       /\ Cardinality(fusion) <= 1
       /\ \A v \in visual, t \in textual : v < t
       /\ \A t \in visual \cup textual, f \in fusion : t < f
       /\ fusion # {} =>
            /\ Exists(visual_file[query_id])
            /\ Exists(textual_file[query_id])
            /\ \A f \in fusion :
                 \A w \in LogPositions("write_visual_file")
                          \cup LogPositions("write_textual_file") : w < f

\* C25 witness: a call that made the visual, the textual and the fusion call
\* and returned
C25_Witness ==
    /\ pc = "ret"
    /\ Logged("generate_visual_response")
    /\ Logged("generate_textual_response")
    /\ Logged("combine_responses")
    /\ Logged("write_combined_file")

-----------------------------------------------------------------------------
(* C26: the completion markers are independent *)

\* C26: the completion markers are independent: in a process_query call
\* where the visual step produces no artifact (empty visual retrieval), the
\* textual step still runs, and if textual retrieval is non-empty the textual
\* artifact is persisted in that same call even though the call returns
\* False; a later call then makes no textual generation call (no call makes
\* one for a query whose textual artifact is on disk).
C26_MarkersIndependent ==
    [][/\ (pc' = "ret" /\ visual_contexts' = "empty") =>
            /\ Logged("retrieve_textual_contexts")' \/ Exists(textual_file'[query_id'])
            /\ textual_contexts' = "some" =>
                 /\ Logged("generate_textual_response")'
                 /\ Exists(textual_file'[query_id'])
                 /\ result' = "False"
       /\ (Logged("generate_textual_response")' /\ ~Logged("generate_textual_response"))
            => ~Exists(textual_file[query_id])]_vars

\* C26 witness: a call whose visual retrieval was empty and whose textual
\* retrieval was not has returned False, leaving the textual artifact and no
\* visual one
C26_Witness ==
    /\ pc = "ret"
    /\ visual_contexts = "empty"
    /\ textual_contexts = "some"
    /\ result = "False"
    /\ textual_file[query_id] = "r1"
    /\ ~Exists(visual_file[query_id])

-----------------------------------------------------------------------------
(* C28: what an existing visual or textual artifact holds *)

\* C28: over any sequence of process_query calls, including calls in which
\* writing an artifact fails partway, every visual or textual artifact file
\* that exists holds a complete response object (one that json.load returns
\* with the keys Evidence, Chain of Thought and Answer).
C28_ExistingArtifactComplete ==
    \A q \in QueryIds :
        /\ Exists(visual_file[q]) => JsonLoads(visual_file[q])
        /\ Exists(textual_file[q]) => JsonLoads(textual_file[q])

====
